---- MODULE Spec2Model ----
(***************************************************************************)
(* Compliance accounting engine of Green_ship (FuelEU Maritime backend):   *)
(* the banking ledger (BankSurplusUseCase, ApplyBankingUseCase,            *)
(* BankingRepository, BankingRecord), the pool entity (Pool,               *)
(* PoolRepository), pool creation (CreatePoolUseCase), the routes store    *)
(* (RouteRepository, SetBaselineUseCase), the compliance calculation       *)
(* (CalculateCBUseCase) and the route comparison (CompareRoutesUseCase).   *)
(*                                                                         *)
(* Quantities of CO2e are integers in units of 0.001 g, so that the        *)
(* rounding of the store's decimal(20,2) columns is visible: Quantum units *)
(* are 0.01 g, the smallest step the store keeps.                          *)
(***************************************************************************)
EXTENDS Integers, Sequences, FiniteSets, Bags, TLC

VARIABLES
    ledger,     \* banking_records table: the rows in insertion order
    now,        \* the wall clock read by `new Date()`
    inflight,   \* the calls of execute awaiting repository.save: a bag of
                \* [rec: the BankingRecord built, cur: the currentBalance read]
    res,        \* outcome of the call that finished last: the response sent
    pool,       \* the Pool entity under study (in memory)
    poolRows,   \* pools table: the rows in insertion order
    poolRes,    \* outcome of the last call on the Pool entity / PoolRepository
    trip,       \* the caller that banks an amount and then borrows it back
    creating,   \* the calls of CreatePoolUseCase.execute past the name check:
                \* a bag of CreatePoolInput
    routes,     \* routes table: is_baseline of each row, by route_id
    setting,    \* the calls of RouteRepository.setBaseline under way: a bag of
                \* [routeId, pc], pc the update that comes next
    routeRes,   \* outcome of the last call of a route / compliance use case
    listRes     \* answer of the last call of GetAllPoolsUseCase.execute

vars ==
    <<ledger, now, inflight, res, pool, poolRows, poolRes, trip, creating,
      routes, setting, routeRes, listRes>>
ledgerVars == <<ledger, now, inflight, res>>
poolVars == <<pool, poolRows, poolRes>>
routeVars == <<routes, setting, routeRes>>

(***************************************************************************)
(* Bounds of the model.                                                    *)
(***************************************************************************)
NumHandlers == 2    \* requests the server handles at a time
MaxRecords == 3     \* rows of banking_records
MaxRows == 1        \* rows of pools
MaxPools == 2       \* rows of pools written by createPool requests

(***************************************************************************)
(* Program constants.                                                      *)
(***************************************************************************)
Quantum == 10       \* decimal(20,2): the store keeps 0.01 g = 10 units of 0.001 g
MinYear == 2025
MaxYear == 2030
MinMembers == 2
EnergyPerTonne == 41000     \* MJ per tonne of fuel
PenaltyPerTonne == 2400     \* EUR per tonne of deficit

Ships == {"SHIP001", "SHIP002"}
ShipIdInputs == Ships
NoYear == 0                         \* undefined year / source year
YearInputs == {2024, 2026}
SourceYearInputs == {NoYear, 2025, 2026}
AmountInputs == {0, 5, 10}          \* 0 g, 0.005 g, 0.01 g

BANK == "BANK"
BORROW == "BORROW"

BankSurplusInput == [shipId : ShipIdInputs, year : YearInputs, amount : AmountInputs]
ApplyBankingInput ==
    [shipId : ShipIdInputs, year : YearInputs, amount : AmountInputs,
     sourceYear : SourceYearInputs]

(***************************************************************************)
(* The store: decimal(20,2) columns round what is inserted to 0.01 g,      *)
(* half away from zero.                                                    *)
(***************************************************************************)
RoundDecimal(x) ==
    IF x >= 0
    THEN ((x + Quantum \div 2) \div Quantum) * Quantum
    ELSE 0 - ((((0 - x) + Quantum \div 2) \div Quantum) * Quantum)

\* BankingRepository.toModel followed by the insert into banking_records
ToModel(r) ==
    [ship_id |-> r.shipId,
     transaction_type |-> r.transactionType,
     year |-> r.year,
     amount |-> RoundDecimal(r.amount),
     source_year |-> r.sourceYear,
     remaining_balance |-> RoundDecimal(r.remainingBalance),
     transaction_date |-> r.transactionDate]

\* a lookup whose where clause has no ship_id: every row
RowsOfAnyShip(shipId) == 1..Len(ledger)

RowsOf(shipId) == {i \in 1..Len(ledger) : ledger[i].ship_id = shipId}

\* the rows `order: { transaction_date: 'DESC' }` may put first
LatestRows(shipId) ==
    LET rows == RowsOf(shipId)
    IN  {i \in rows : \A j \in rows : ledger[j].transaction_date <= ledger[i].transaction_date}

\* BankingRepository.getCurrentBalance: the values findOne may return
GetCurrentBalance(shipId) ==
    LET latest == LatestRows(shipId)
    IN  IF latest = {} THEN {0} ELSE {ledger[i].remaining_balance : i \in latest}

(***************************************************************************)
(* BankingRecord entity.                                                   *)
(***************************************************************************)
BankingRecordValidate(props) ==
    /\ props.shipId # ""
    /\ ~(props.year # NoYear /\ (props.year < MinYear \/ props.year > MaxYear))
    /\ ~(props.amount <= 0)
    /\ ~(props.remainingBalance < 0)
    /\ ~(props.transactionType = BORROW /\ props.sourceYear = NoYear)

\* createBankTransaction that forgets the balance it was given
CreateBankTransactionFromZero(shipId, year, amount, currentBalance, date) ==
    [shipId |-> shipId, transactionType |-> BANK, year |-> year, amount |-> amount,
     sourceYear |-> NoYear, remainingBalance |-> amount,
     transactionDate |-> date]

CreateBankTransaction(shipId, year, amount, currentBalance, date) ==
    [shipId |-> shipId, transactionType |-> BANK, year |-> year, amount |-> amount,
     sourceYear |-> NoYear, remainingBalance |-> currentBalance + amount,
     transactionDate |-> date]

\* the guard of createBorrowTransaction: amount > currentBalance throws
BorrowExceedsBalance(amount, currentBalance) == amount > currentBalance

CreateBorrowTransaction(shipId, year, amount, sourceYear, currentBalance, date) ==
    [shipId |-> shipId, transactionType |-> BORROW, year |-> year, amount |-> amount,
     sourceYear |-> sourceYear, remainingBalance |-> currentBalance - amount,
     transactionDate |-> date]

(***************************************************************************)
(* Use cases.                                                              *)
(***************************************************************************)
\* validateInput without the test that the year is there at all
BankValidateInputYearUntested(input) ==
    /\ input.shipId # ""
    /\ ~(input.year # NoYear /\ (input.year < MinYear \/ input.year > MaxYear))
    /\ ~(input.amount = 0 \/ input.amount <= 0)

BankValidateInput(input) ==
    /\ input.shipId # ""
    /\ ~(input.year = NoYear \/ input.year < MinYear \/ input.year > MaxYear)
    /\ ~(input.amount = 0 \/ input.amount <= 0)

\* validateInput without the comparison of the source year with the year of use
ApplyValidateInputAnySource(input) ==
    /\ input.shipId # ""
    /\ ~(input.year = NoYear \/ input.year < MinYear \/ input.year > MaxYear)
    /\ ~(input.amount = 0 \/ input.amount <= 0)
    /\ ~(input.sourceYear = NoYear \/ input.sourceYear < MinYear
            \/ input.sourceYear > MaxYear)

ApplyValidateInput(input) ==
    /\ input.shipId # ""
    /\ ~(input.year = NoYear \/ input.year < MinYear \/ input.year > MaxYear)
    /\ ~(input.amount = 0 \/ input.amount <= 0)
    /\ ~(input.sourceYear = NoYear \/ input.sourceYear < MinYear
            \/ input.sourceYear > MaxYear)
    /\ ~(input.sourceYear >= input.year)

\* the balance check with the boundary on the wrong side
InsufficientBalanceOrEqual(currentBalance, amount) == currentBalance <= amount

\* ApplyBankingUseCase.execute step 2: currentBalance < amount throws
InsufficientBalance(currentBalance, amount) == currentBalance < amount

\* the server takes another request
FreeSlot == BagCardinality(inflight) < NumHandlers

RoomForRecord == Len(ledger) + BagCardinality(inflight) < MaxRecords

\* execute throws: nothing is written, the error is the response
Fail(why) ==
    /\ res' = why
    /\ UNCHANGED <<ledger, now, inflight>>

\* execute reaches `await this.bankingRepository.save(record)`
Proceed(r, b) ==
    /\ inflight' = inflight (+) SetToBag({[rec |-> r, cur |-> b]})
    /\ UNCHANGED <<ledger, now, res>>

\* BankSurplusUseCase.execute up to the call of repository.save:
\* validateInput, getCurrentBalance (which returns b), createBankTransaction
BankSurplusExecute(input, b) ==
    /\ FreeSlot
    /\ RoomForRecord
    /\ b \in GetCurrentBalance(input.shipId)
    /\ IF ~BankValidateInput(input)
       THEN Fail("invalid")
       ELSE LET r == CreateBankTransaction(input.shipId, input.year, input.amount, b, now)
            IN  IF ~BankingRecordValidate(r)
                THEN Fail("invalid")
                ELSE Proceed(r, b)

\* ApplyBankingUseCase.execute without either comparison of amount and balance
ApplyBankingExecuteUnchecked(input, b) ==
    /\ FreeSlot
    /\ RoomForRecord
    /\ b \in GetCurrentBalance(input.shipId)
    /\ IF ~ApplyValidateInput(input)
       THEN Fail("invalid")
       ELSE LET r == CreateBorrowTransaction(input.shipId, input.year, input.amount,
                                             input.sourceYear, b, now)
            IN  IF ~BankingRecordValidate(r)
                THEN Fail("invalid")
                ELSE Proceed(r, b)

\* ApplyBankingUseCase.execute up to the call of repository.save
ApplyBankingExecute(input, b) ==
    /\ FreeSlot
    /\ RoomForRecord
    /\ b \in GetCurrentBalance(input.shipId)
    /\ IF ~ApplyValidateInput(input)
       THEN Fail("invalid")
       ELSE IF InsufficientBalance(b, input.amount)
       THEN Fail("insufficient")
       ELSE IF BorrowExceedsBalance(input.amount, b)
       THEN Fail("insufficient")
       ELSE LET r == CreateBorrowTransaction(input.shipId, input.year, input.amount,
                                             input.sourceYear, b, now)
            IN  IF ~BankingRecordValidate(r)
                THEN Fail("invalid")
                ELSE Proceed(r, b)

\* a save that writes over the ship's latest row when it has one
BankingRepositorySaveOverwrite(call) ==
    /\ BagIn(call, inflight)
    /\ LET latest == LatestRows(call.rec.shipId)
       IN  ledger' = IF latest = {}
                     THEN Append(ledger, ToModel(call.rec))
                     ELSE [ledger EXCEPT ![CHOOSE i \in latest : TRUE] = ToModel(call.rec)]
    /\ inflight' = inflight (-) SetToBag({call})
    /\ res' = "ok"
    /\ UNCHANGED now

\* BankingRepository.save and the rest of execute, for one of the calls in
\* flight: the row is inserted and the use case returns success
BankingRepositorySave(call) ==
    /\ BagIn(call, inflight)
    /\ ledger' = Append(ledger, ToModel(call.rec))
    /\ inflight' = inflight (-) SetToBag({call})
    /\ res' = "ok"
    /\ UNCHANGED now

\* Time passes between two readings of the clock. Timestamps are only compared
\* with each other, so the clock moves on only past a reading some record carries.
ClockWasRead ==
    \/ \E i \in 1..Len(ledger) : ledger[i].transaction_date = now
    \/ \E call \in BagToSet(inflight) : call.rec.transactionDate = now

Tick ==
    /\ ClockWasRead
    /\ now' = now + 1
    /\ UNCHANGED <<ledger, inflight, res>>

(***************************************************************************)
(* Pool entity and PoolRepository.                                         *)
(***************************************************************************)
PoolShips == Ships \cup {"SHIP003"}
PoolNameInputs == {"Alpha"}

\* the members offered to a pool: each ship with its compliance balance
\* (0.004 g, 0.004 g, -0.012 g)
PoolMember ==
    {[shipId |-> "SHIP001", complianceBalance |-> 4],
     [shipId |-> "SHIP002", complianceBalance |-> 4],
     [shipId |-> "SHIP003", complianceBalance |-> -12]}

\* member lists of every length up to the number of ships, duplicates included
MemberListsOfLength(n) == [1..n -> PoolMember]
MemberLists == UNION {MemberListsOfLength(n) : n \in 0..Cardinality(PoolShips)}

NoPool ==
    [poolName |-> "", year |-> NoYear, members |-> <<>>, totalCB |-> 0,
     isCompliant |-> FALSE]

\* members.reduce((sum, member) => sum + member.complianceBalance, 0)
RECURSIVE SumCB(_)
SumCB(members) ==
    IF members = <<>>
    THEN 0
    ELSE SumCB(SubSeq(members, 1, Len(members) - 1))
            + members[Len(members)].complianceBalance

ShipIdsOf(members) == {members[i].shipId : i \in 1..Len(members)}

\* Pool.validate, called by the constructor: "ok" or the message thrown
PoolValidate(props) ==
    IF props.poolName = ""
    THEN "Pool name is required"
    ELSE IF props.year < MinYear \/ props.year > MaxYear
    THEN "Year must be between 2025 and 2030"
    ELSE IF Len(props.members) < MinMembers
    THEN "Pool must have at least 2 members"
    ELSE IF Len(props.members) # Cardinality(ShipIdsOf(props.members))
    THEN "Pool cannot have duplicate members"
    ELSE "ok"

\* the props Pool.createPool hands to the constructor
CreatePoolProps(poolName, year, members) ==
    LET totalCB == SumCB(members)
    IN  [poolName |-> poolName, year |-> year, members |-> members,
         totalCB |-> totalCB, isCompliant |-> totalCB >= 0]

\* a recalculation that refreshes the total and leaves the flag as it was
RecalculateTotalCBFlagKept(p) == [p EXCEPT !.totalCB = SumCB(p.members)]

\* Pool.recalculateTotalCB
RecalculateTotalCB(p) ==
    LET totalCB == SumCB(p.members)
    IN  [p EXCEPT !.totalCB = totalCB, !.isCompliant = totalCB >= 0]

\* a membership test that never finds the ship
MemberExistsNever(members, shipId) == FALSE

\* members.some(m => m.shipId === member.shipId)
MemberExists(members, shipId) == \E i \in 1..Len(members) : members[i].shipId = shipId

\* members.findIndex(m => m.shipId === shipId), 0 standing for -1
FindIndex(members, shipId) ==
    IF MemberExists(members, shipId)
    THEN CHOOSE i \in 1..Len(members) :
            /\ members[i].shipId = shipId
            /\ \A j \in 1..(i - 1) : members[j].shipId # shipId
    ELSE 0

\* members.splice(index, 1)
Splice(members, index) ==
    SubSeq(members, 1, index - 1) \o SubSeq(members, index + 1, Len(members))

\* Pool.removeMember: the pool it leaves and what it throws ("ok" when it returns)
RemoveMemberOutcome(p, shipId) ==
    LET index == FindIndex(p.members, shipId)
        spliced == [p EXCEPT !.members = Splice(p.members, index)]
    IN  IF index = 0
        THEN [pool |-> p, error |-> "Ship is not in the pool"]
        ELSE IF Len(spliced.members) < MinMembers
        THEN [pool |-> spliced, error |-> "Pool must have at least 2 members"]
        ELSE [pool |-> RecalculateTotalCB(spliced), error |-> "ok"]

\* Pool.addMember: the pool it leaves and what it throws
AddMemberOutcome(p, member) ==
    IF MemberExists(p.members, member.shipId)
    THEN [pool |-> p, error |-> "Ship is already in the pool"]
    ELSE [pool |-> RecalculateTotalCB([p EXCEPT !.members = Append(p.members, member)]),
          error |-> "ok"]

\* PoolRepository.toModel and the insert: total_cb is a decimal(20,2) column,
\* members a jsonb column
PoolToModel(p) ==
    [pool_name |-> p.poolName, year |-> p.year, members |-> p.members,
     total_cb |-> RoundDecimal(p.totalCB), is_compliant |-> p.isCompliant]

\* PoolRepository.toDomain: the props handed to the Pool constructor
PoolToDomain(model) ==
    [poolName |-> model.pool_name, year |-> model.year, members |-> model.members,
     totalCB |-> model.total_cb, isCompliant |-> model.is_compliant]

\* Pool.calculatePenalty: (|totalCB| / 1,000,000 g) * 2400 EUR unless the
\* flag says compliant, kept exact in units of 1/25000 cent
PoolCalculatePenalty(p) ==
    IF p.isCompliant
    THEN 0
    ELSE (IF p.totalCB < 0 THEN -p.totalCB ELSE p.totalCB) * (PenaltyPerTonne \div 400)

\* the quotient num / den of two numbers as the division computes it: a
\* fraction kept exact, Infinity for a positive number over 0
Quotient(num, den) ==
    IF den = 0
    THEN [kind |-> "Infinity", num |-> 0, den |-> 0]
    ELSE [kind |-> "finite", num |-> num, den |-> den]

\* Pool.getPenaltyPerMember: 0 when the penalty is 0, totalPenalty /
\* members.length otherwise
GetPenaltyPerMember(p) ==
    IF PoolCalculatePenalty(p) = 0
    THEN Quotient(0, 1)
    ELSE Quotient(PoolCalculatePenalty(p), Len(p.members))

\* the members taken as surplus when the pool's total is one
GetSurplusMembersByTotal(p) == IF p.totalCB > 0 THEN p.members ELSE <<>>

\* Pool.getSurplusMembers: members.filter(m => m.complianceBalance > 0)
GetSurplusMembers(p) == SelectSeq(p.members, LAMBDA m : m.complianceBalance > 0)

\* Pool.getDeficitMembers: members.filter(m => m.complianceBalance < 0)
GetDeficitMembers(p) == SelectSeq(p.members, LAMBDA m : m.complianceBalance < 0)

\* Pool.getTotalSurplus
GetTotalSurplus(p) == SumCB(GetSurplusMembers(p))

\* the deficit members' sum as it is, negative
GetTotalDeficitSigned(p) == SumCB(GetDeficitMembers(p))

\* Pool.getTotalDeficit: Math.abs of the deficit members' sum
GetTotalDeficit(p) ==
    LET sum == SumCB(GetDeficitMembers(p))
    IN  IF sum < 0 THEN -sum ELSE sum

\* Pool.getTotalCB
GetTotalCB(p) == p.totalCB

\* Pool.createPool(poolName, year, members)
CreatePool(poolName, year, members) ==
    LET props == CreatePoolProps(poolName, year, members)
        thrown == PoolValidate(props)
    IN  /\ poolRes' = thrown
        /\ pool' = IF thrown = "ok" THEN props ELSE pool
        /\ UNCHANGED poolRows

\* pool.addMember(member)
AddMember(member) ==
    /\ pool # NoPool
    /\ LET outcome == AddMemberOutcome(pool, member)
       IN  pool' = outcome.pool /\ poolRes' = outcome.error
    /\ UNCHANGED poolRows

\* pool.removeMember(shipId)
RemoveMember(shipId) ==
    /\ pool # NoPool
    /\ LET outcome == RemoveMemberOutcome(pool, shipId)
       IN  pool' = outcome.pool /\ poolRes' = outcome.error
    /\ UNCHANGED poolRows

\* PoolRepository.save(pool): inserts the row, then builds the Pool it returns from
\* the model it saved (whose total_cb is still the number it was given)
PoolRepositorySave ==
    /\ pool # NoPool
    /\ Len(poolRows) < MaxRows
    /\ poolRows' = Append(poolRows, PoolToModel(pool))
    /\ poolRes' = PoolValidate(pool)
    /\ UNCHANGED pool

\* PoolRepository.findById(id): the Pool built from the stored row
PoolRepositoryFindById(id) ==
    /\ IF id \in 1..Len(poolRows)
       THEN LET props == PoolToDomain(poolRows[id])
                thrown == PoolValidate(props)
            IN  /\ poolRes' = thrown
                /\ pool' = IF thrown = "ok" THEN props ELSE pool
       ELSE /\ poolRes' = "Pool not found"
            /\ UNCHANGED pool
    /\ UNCHANGED poolRows

(***************************************************************************)
(* A caller that banks an amount for a ship and, once that has returned,   *)
(* borrows the same amount back, nothing else running meanwhile.           *)
(***************************************************************************)
NoTrip == [stage |-> "none", shipId |-> "", amount |-> 0, before |-> 0]

AllIdle == BagCardinality(inflight) = 0

\* bank(shipId, 2026, amount), the balance before it being b
TripBank(shipId, amount, b) ==
    /\ trip.stage = "none"
    /\ AllIdle
    /\ Len(ledger) + 2 <= MaxRecords
    /\ BankSurplusExecute([shipId |-> shipId, year |-> 2026, amount |-> amount], b)
    /\ ~AllIdle'
    /\ trip' = [stage |-> "banking", shipId |-> shipId, amount |-> amount, before |-> b]

TripBankSaved ==
    /\ trip.stage = "banking"
    /\ \E call \in BagToSet(inflight) : BankingRepositorySave(call)
    /\ trip' = [trip EXCEPT !.stage = "banked"]

\* borrow(shipId, 2026, amount, sourceYear 2025)
TripBorrow(b) ==
    /\ trip.stage = "banked"
    /\ ApplyBankingExecute([shipId |-> trip.shipId, year |-> 2026,
                            amount |-> trip.amount, sourceYear |-> 2025], b)
    /\ trip' = [trip EXCEPT !.stage = IF AllIdle' THEN "done" ELSE "borrowing"]

TripBorrowSaved ==
    /\ trip.stage = "borrowing"
    /\ \E call \in BagToSet(inflight) : BankingRepositorySave(call)
    /\ trip' = [trip EXCEPT !.stage = "done"]

(***************************************************************************)
(* The routes store, SetBaselineUseCase, the compliance calculator and the *)
(* route comparison.  GHG intensities are integers in units of             *)
(* 0.0001 gCO2e/MJ, fuel consumptions in tonnes.                           *)
(***************************************************************************)
NoRouteId == ""                     \* undefined / blank route id
RouteIds == {"R001", "R002", "R003", "R005"}
SeedBaseline == "R001"
RouteIdInputs == RouteIds \cup {NoRouteId, "R404"}

\* ghg_intensity of the rows: 91.0, 88.0 and 93.5 as seeded, and a route at
\* exactly the 2026 target
RouteGHG == [R001 |-> 910000, R002 |-> 880000, R003 |-> 935000, R005 |-> 877528]

\* fuel_consumption of the rows, in tonnes: small amounts (the seeded rows
\* carry thousands of tonnes), so that balances stay within 32-bit integers
RouteFuel == [R001 |-> 2, R002 |-> 1, R003 |-> 1, R005 |-> 1]

\* the answer of a route / compliance use case that throws
RouteError(op, message) == [op |-> op, error |-> message]

\* RouteRepository.findBaseline: findOne({ is_baseline: true }), any of the
\* rows flagged when several are; the empty set stands for null
FindBaseline == {routeId \in RouteIds : routes[routeId]}

\* RouteRepository.findByRouteId: the row's is_baseline as read now
FindByRouteId(routeId) == routeId \in RouteIds

\* SetBaselineUseCase.execute up to the call of repository.setBaseline
SetBaselineExecute(routeId) ==
    /\ BagCardinality(setting) < NumHandlers
    /\ IF routeId = NoRouteId
       THEN /\ routeRes' = RouteError("setBaseline", "Route ID is required")
            /\ UNCHANGED <<routes, setting>>
       ELSE IF ~FindByRouteId(routeId)
       THEN /\ routeRes' = RouteError("setBaseline", "Route not found")
            /\ UNCHANGED <<routes, setting>>
       ELSE /\ setting' = setting (+) SetToBag({[routeId |-> routeId, pc |-> "clear"]})
            /\ UNCHANGED <<routes, routeRes>>

\* RouteRepository.setBaseline(routeId) called on the repository itself: the
\* call starts at step 1 whatever the route id
RouteRepositorySetBaseline(routeId) ==
    /\ BagCardinality(setting) < NumHandlers
    /\ setting' = setting (+) SetToBag({[routeId |-> routeId, pc |-> "clear"]})
    /\ UNCHANGED <<routes, routeRes>>

\* RouteRepository.setBaseline, step 1:
\* update({ is_baseline: true }, { is_baseline: false })
ClearBaseline(call) ==
    /\ BagIn(call, setting)
    /\ call.pc = "clear"
    /\ routes' = [routeId \in RouteIds |-> FALSE]
    /\ setting' = (setting (-) SetToBag({call}))
                    (+) SetToBag({[call EXCEPT !.pc = "mark"]})
    /\ UNCHANGED routeRes

\* RouteRepository.setBaseline, step 2:
\* update({ route_id: routeId }, { is_baseline: true })
MarkBaseline(call) ==
    /\ BagIn(call, setting)
    /\ call.pc = "mark"
    /\ routes' = [routeId \in RouteIds |-> routeId = call.routeId \/ routes[routeId]]
    /\ setting' = (setting (-) SetToBag({call}))
                    (+) SetToBag({[call EXCEPT !.pc = "find"]})
    /\ UNCHANGED routeRes

\* RouteRepository.setBaseline, step 3, and the return of execute: the row
\* as findByRouteId reads it
ReturnUpdated(call) ==
    /\ BagIn(call, setting)
    /\ call.pc = "find"
    /\ setting' = setting (-) SetToBag({call})
    /\ routeRes' = IF FindByRouteId(call.routeId)
                   THEN [op |-> "setBaseline", error |-> "", routeId |-> call.routeId,
                         isBaseline |-> routes[call.routeId]]
                   ELSE RouteError("setBaseline", "Route not found")
    /\ UNCHANGED routes

\* FuelEU GHG intensity targets by year (89.3368 ... 81.4168 gCO2e/MJ)
FUELEU_TARGETS ==
    (2025 :> 893368) @@ (2026 :> 877528) @@ (2027 :> 861688) @@
    (2028 :> 845848) @@ (2029 :> 830008) @@ (2030 :> 814168)

\* (target - actual) * energyInScope in units of 0.001 g: one unit of intensity
\* over one MJ is 0.0001 g, a tenth of a unit of balance
BalanceOf(target, ghgActual, fuelConsumption) ==
    (target - ghgActual) * ((fuelConsumption * EnergyPerTonne) \div 10)

\* n.toFixed(2) of a non-negative amount of 0.001 g taken in tonnes:
\* hundredths of a tonne, the nearest
TonnesToFixed2(grams) == (grams + 5000000) \div 10000000

\* ComplianceBalance.createFromRoute(shipId, year, fuelConsumption, ghgActual, 1.0)
CreateFromRoute(shipId, year, fuelConsumption, ghgActual) ==
    [shipId |-> shipId, year |-> year,
     energyInScope |-> fuelConsumption * EnergyPerTonne,
     ghgTarget |-> FUELEU_TARGETS[year], ghgActual |-> ghgActual,
     complianceBalance |-> BalanceOf(FUELEU_TARGETS[year], ghgActual, fuelConsumption)]

\* ComplianceBalance.isCompliant
IsCompliant(cb) == cb.complianceBalance >= 0

\* ComplianceBalance.getSurplusAmount
GetSurplusAmount(cb) == IF cb.complianceBalance > 0 THEN cb.complianceBalance ELSE 0

\* ComplianceBalance.getDeficitAmount
GetDeficitAmount(cb) == IF cb.complianceBalance < 0 THEN -cb.complianceBalance ELSE 0

\* ComplianceBalance.calculatePenalty: (deficit / 1,000,000 g) * 2400 EUR, kept
\* exact in units of 1/25000 cent (0.001 g of deficit is 6 such units)
CalculatePenalty(cb) ==
    IF IsCompliant(cb)
    THEN 0
    ELSE (GetDeficitAmount(cb) * (PenaltyPerTonne \div 400))

\* penalty.toFixed(2): cents, the nearest
PenaltyToFixed2(penalty) == (penalty + 12500) \div 25000

CalculateShipIdInputs == {"", "SHIP001"}
CalculateYearInputs == {NoYear, 2024, 2025, 2026, 2031}
CalculateCBInput ==
    [shipId : CalculateShipIdInputs, year : CalculateYearInputs, routeId : RouteIdInputs]

\* CalculateCBUseCase.validateInput: "ok" or the message thrown
CalculateValidateInput(input) ==
    IF input.shipId = ""
    THEN "Ship ID is required"
    ELSE IF input.year = NoYear \/ input.year < MinYear \/ input.year > MaxYear
    THEN "Year must be between 2025 and 2030"
    ELSE "ok"

\* an output whose surplus is the size of the balance whatever its sign
CalculateCBOutputSurplusAlways(input, routeId) ==
    LET cb == CreateFromRoute(input.shipId, input.year, RouteFuel[routeId],
                              RouteGHG[routeId])
        size == IF cb.complianceBalance < 0
                THEN -cb.complianceBalance ELSE cb.complianceBalance
    IN  [op |-> "calculateCB", error |-> "",
         shipId |-> input.shipId, year |-> input.year, routeId |-> routeId,
         ghgTarget |-> cb.ghgTarget, ghgActual |-> cb.ghgActual,
         complianceBalance |-> cb.complianceBalance,
         isCompliant |-> IsCompliant(cb),
         status |-> IF IsCompliant(cb) THEN "compliant" ELSE "non-compliant",
         surplus |-> size,
         deficit |-> GetDeficitAmount(cb),
         surplusTonnes |-> TonnesToFixed2(size),
         deficitTonnes |-> TonnesToFixed2(GetDeficitAmount(cb)),
         penalty |-> PenaltyToFixed2(CalculatePenalty(cb))]

\* CalculateCBUseCase.execute, steps 2 to 5: the output for the route found
\* (the fields that echo the input or the route are left out but for the ids)
CalculateCBOutput(input, routeId) ==
    LET cb == CreateFromRoute(input.shipId, input.year, RouteFuel[routeId],
                              RouteGHG[routeId])
    IN  [op |-> "calculateCB", error |-> "",
         shipId |-> input.shipId, year |-> input.year, routeId |-> routeId,
         ghgTarget |-> cb.ghgTarget, ghgActual |-> cb.ghgActual,
         complianceBalance |-> cb.complianceBalance,
         isCompliant |-> IsCompliant(cb),
         status |-> IF IsCompliant(cb) THEN "compliant" ELSE "non-compliant",
         surplus |-> GetSurplusAmount(cb),
         deficit |-> GetDeficitAmount(cb),
         surplusTonnes |-> TonnesToFixed2(GetSurplusAmount(cb)),
         deficitTonnes |-> TonnesToFixed2(GetDeficitAmount(cb)),
         penalty |-> PenaltyToFixed2(CalculatePenalty(cb))]

\* CalculateCBUseCase.execute
CalculateCBExecute(input) ==
    /\ UNCHANGED <<routes, setting>>
    /\ IF CalculateValidateInput(input) # "ok"
       THEN routeRes' = RouteError("calculateCB", CalculateValidateInput(input))
       ELSE IF input.routeId # NoRouteId
       THEN IF FindByRouteId(input.routeId)
            THEN routeRes' = CalculateCBOutput(input, input.routeId)
            ELSE routeRes' = RouteError("calculateCB", "Route not found")
       ELSE IF FindBaseline = {}
       THEN routeRes' = RouteError("calculateCB", "No baseline route found")
       ELSE \E routeId \in FindBaseline : routeRes' = CalculateCBOutput(input, routeId)

CompareYearInputs == {NoYear, 2024, 2025, 2026, 2031}

\* FUELEU_TARGETS[year] || FUELEU_TARGETS[2025]
CompareTarget(year) ==
    IF year \in DOMAIN FUELEU_TARGETS THEN FUELEU_TARGETS[year] ELSE FUELEU_TARGETS[2025]

\* the body of comparisons.map: a route's intensity and fuel against the target
CompareEntry(ghgIntensity, fuelConsumption, target) ==
    LET compliant == ghgIntensity <= target
        difference == BalanceOf(target, ghgIntensity, fuelConsumption)
    IN  [compliant |-> compliant,
         surplus |-> IF compliant THEN TonnesToFixed2(difference) ELSE 0,
         deficit |-> IF ~compliant THEN TonnesToFixed2(-difference) ELSE 0]

\* one entry of comparisons: the route against the target
CompareRoute(routeId, target) ==
    CompareEntry(RouteGHG[routeId], RouteFuel[routeId], target)

\* CompareRoutesUseCase.execute(year)
CompareRoutesExecute(year) ==
    /\ UNCHANGED <<routes, setting>>
    /\ IF FindBaseline = {}
       THEN routeRes' = RouteError("compareRoutes", "No baseline route found")
       ELSE \E baseline \in FindBaseline :
                routeRes' =
                    [op |-> "compareRoutes", error |-> "", baseline |-> baseline,
                     target |-> CompareTarget(year), year |-> year,
                     comparisons |->
                        [routeId \in RouteIds \ {baseline} |->
                            CompareRoute(routeId, CompareTarget(year))]]

\* RouteController.compareRoutes: the year of the query, 2025 when it has none
CompareRoutes(queryYear) ==
    CompareRoutesExecute(IF queryYear = NoYear THEN 2025 ELSE queryYear)

NoRouteRes == [op |-> "none", error |-> ""]

(***************************************************************************)
(* CreatePoolUseCase over PoolRepository and RouteRepository.              *)
(***************************************************************************)
CreatePoolNameInputs == {"", "Alpha", "Beta"}
CreatePoolYearInputs == {NoYear, 2024, 2026}
\* the ships offered: each on the baseline route, one also on a route of its
\* own, one also on a route the store does not hold
ShipInput ==
    {[shipId |-> "SHIP001", routeId |-> NoRouteId],
     [shipId |-> "SHIP001", routeId |-> "R002"],
     [shipId |-> "SHIP002", routeId |-> NoRouteId],
     [shipId |-> "SHIP002", routeId |-> "R404"]}
ShipInputLists == UNION {[1..n -> ShipInput] : n \in 0..MinMembers}
CreatePoolInput ==
    [poolName : CreatePoolNameInputs, year : CreatePoolYearInputs, ships : ShipInputLists]

\* CreatePoolUseCase.validateInput: "ok" or the message thrown
CreatePoolValidateInput(input) ==
    IF input.poolName = ""
    THEN "Pool name is required"
    ELSE IF input.year = NoYear \/ input.year < MinYear \/ input.year > MaxYear
    THEN "Year must be between 2025 and 2030"
    ELSE IF Len(input.ships) < MinMembers
    THEN "Pool must have at least 2 ships"
    ELSE IF Len(input.ships) # Cardinality(ShipIdsOf(input.ships))
    THEN "Cannot include the same ship multiple times in a pool"
    ELSE "ok"

\* a name check that finds no pool
FindByNameNever(poolName) == FALSE

\* PoolRepository.findByName: findOne({ pool_name: poolName }) finds a row
FindByName(poolName) == \E i \in 1..Len(poolRows) : poolRows[i].pool_name = poolName

\* rows the pool store has room for, calls under way counted
RoomForPool == Len(poolRows) + BagCardinality(creating) < MaxPools

\* CreatePoolUseCase.execute up to the answer of findByName: validateInput
\* and step 1
CreatePoolExecute(input) ==
    /\ BagCardinality(creating) < NumHandlers
    /\ RoomForPool
    /\ UNCHANGED <<pool, poolRows>>
    /\ IF CreatePoolValidateInput(input) # "ok"
       THEN /\ poolRes' = CreatePoolValidateInput(input)
            /\ UNCHANGED creating
       ELSE IF FindByName(input.poolName)
       THEN /\ poolRes' = "Pool with name already exists"
            /\ UNCHANGED creating
       ELSE /\ creating' = creating (+) SetToBag({input})
            /\ UNCHANGED poolRes

\* the routes a ship's lookup can answer: findByRouteId when the ship names a
\* route, findBaseline otherwise; none when the lookup answers null
ResolveRoute(shipInput) ==
    IF shipInput.routeId # NoRouteId
    THEN IF FindByRouteId(shipInput.routeId) THEN {shipInput.routeId} ELSE {}
    ELSE FindBaseline

\* the first ship whose route lookup answers null, 0 when every lookup answers
FirstUnresolved(ships) ==
    IF \E i \in 1..Len(ships) : ResolveRoute(ships[i]) = {}
    THEN CHOOSE i \in 1..Len(ships) :
            /\ ResolveRoute(ships[i]) = {}
            /\ \A j \in 1..(i - 1) : ResolveRoute(ships[j]) # {}
    ELSE 0

\* step 2 for one ship: the member pushed (shipId and complianceBalance; the
\* contribution fields repeat the balance)
PoolMemberOf(shipInput, year, routeId) ==
    [shipId |-> shipInput.shipId,
     complianceBalance |->
        CreateFromRoute(shipInput.shipId, year, RouteFuel[routeId],
                        RouteGHG[routeId]).complianceBalance]

\* CreatePoolUseCase.execute from step 2 on, for one of the calls past the
\* name check: the members, Pool.createPool and poolRepository.save
CreatePoolSave(call) ==
    /\ BagIn(call, creating)
    /\ creating' = creating (-) SetToBag({call})
    /\ UNCHANGED pool
    /\ IF FirstUnresolved(call.ships) # 0
       THEN /\ poolRes' = IF call.ships[FirstUnresolved(call.ships)].routeId # NoRouteId
                          THEN "Route not found for ship"
                          ELSE "No baseline route found"
            /\ UNCHANGED poolRows
       ELSE \E found \in [1..Len(call.ships) -> RouteIds] :
                /\ \A i \in 1..Len(call.ships) : found[i] \in ResolveRoute(call.ships[i])
                /\ LET members ==
                            [i \in 1..Len(call.ships) |->
                                PoolMemberOf(call.ships[i], call.year, found[i])]
                       props == CreatePoolProps(call.poolName, call.year, members)
                   IN  IF PoolValidate(props) = "ok"
                       THEN /\ poolRows' = Append(poolRows, PoolToModel(props))
                            /\ poolRes' = "ok"
                       ELSE /\ poolRes' = PoolValidate(props)
                            /\ UNCHANGED poolRows

(***************************************************************************)
(* GetAllPoolsUseCase over PoolRepository.                                 *)
(***************************************************************************)
NoShipId == ""                      \* undefined shipId
ListYearInputs == {NoYear, 2025, 2026}
ListShipIdInputs == {NoShipId, "SHIP002", "SHIP003"}
NoListRes == [error |-> "", year |-> NoYear, shipId |-> NoShipId, pools |-> <<>>]

\* the ids of the rows of the pools table, the latest created first
\* (order: { created_at: 'DESC' })
RowIdsLatestFirst == [k \in 1..Len(poolRows) |-> Len(poolRows) + 1 - k]

\* the rows a query answers: the ids, latest first, of the rows that match
SelectRows(Matches(_)) == SelectSeq(RowIdsLatestFirst, Matches)

\* PoolRepository.findByYear: find({ where: { year } })
FindByYear(year) == SelectRows(LAMBDA id : poolRows[id].year = year)

\* PoolRepository.findByShipId: members::jsonb @> '[{"shipId": shipId}]'
FindByShipId(shipId) ==
    SelectRows(LAMBDA id : MemberExists(poolRows[id].members, shipId))

\* PoolRepository.findAll
FindAll == SelectRows(LAMBDA id : TRUE)

\* GetAllPoolsUseCase.execute, the choice of the query: the year when there
\* is one, else the ship when there is one, else every pool
PoolsFor(input) ==
    IF input.year # NoYear
    THEN FindByYear(input.year)
    ELSE IF input.shipId # NoShipId
    THEN FindByShipId(input.shipId)
    ELSE FindAll

\* one PoolSummary: the pool's id and what the Pool built by toDomain reports
\* (totalCBTonnes and createdAt are left out)
PoolSummaryOf(id) ==
    LET p == PoolToDomain(poolRows[id])
    IN  [id |-> id, poolName |-> p.poolName, year |-> p.year,
         memberCount |-> Len(p.members), isCompliant |-> p.isCompliant,
         status |-> IF p.isCompliant THEN "compliant" ELSE "non-compliant"]

\* GetAllPoolsUseCase.execute, as PoolingController.getAllPools calls it with
\* the year and the shipId of the query
GetAllPools(input) ==
    LET ids == PoolsFor(input)
    IN  /\ listRes' =
            IF \E k \in 1..Len(ids) : PoolValidate(PoolToDomain(poolRows[ids[k]])) # "ok"
            THEN [error |-> "Failed to get pools", year |-> input.year,
                  shipId |-> input.shipId, pools |-> <<>>]
            ELSE [error |-> "", year |-> input.year, shipId |-> input.shipId,
                  pools |-> [k \in 1..Len(ids) |-> PoolSummaryOf(ids[k])]]
        /\ UNCHANGED <<pool, poolRows, poolRes, creating>>

\* the createPool requests that fill the store to be listed: two names, two
\* years, two pairs of ships on the baseline route
ListedPoolInputs ==
    {[poolName |-> poolName, year |-> year,
      ships |-> <<[shipId |-> "SHIP001", routeId |-> NoRouteId],
                  [shipId |-> other, routeId |-> NoRouteId]>>] :
        poolName \in {"Alpha", "Beta"}, year \in {2025, 2026},
        other \in {"SHIP002", "SHIP003"}}

Init ==
    /\ ledger = <<>>
    /\ now = 0
    /\ inflight = EmptyBag
    /\ res = "none"
    /\ pool = NoPool
    /\ poolRows = <<>>
    /\ poolRes = "none"
    /\ trip = NoTrip
    /\ creating = EmptyBag
    /\ routes = [routeId \in RouteIds |-> routeId = SeedBaseline]
    /\ setting = EmptyBag
    /\ routeRes = NoRouteRes
    /\ listRes = NoListRes

\* The banking ledger under concurrent requests.
Next ==
    \/ \E input \in BankSurplusInput :
            /\ FreeSlot
            /\ \E b \in GetCurrentBalance(input.shipId) : BankSurplusExecute(input, b)
            /\ UNCHANGED <<poolVars, creating, listRes, routeVars, trip>>
    \/ \E input \in ApplyBankingInput :
            /\ FreeSlot
            /\ \E b \in GetCurrentBalance(input.shipId) : ApplyBankingExecute(input, b)
            /\ UNCHANGED <<poolVars, creating, listRes, routeVars, trip>>
    \/ \E call \in BagToSet(inflight) :
            BankingRepositorySave(call) /\ UNCHANGED <<poolVars, creating, listRes, routeVars, trip>>
    \/ Tick /\ UNCHANGED <<poolVars, creating, listRes, routeVars, trip>>

Spec == Init /\ [][Next]_vars

\* One Pool entity through its life, and the pool store.
PoolNext ==
    \/ \E poolName \in PoolNameInputs, year \in YearInputs, members \in MemberLists :
            CreatePool(poolName, year, members) /\ UNCHANGED <<ledgerVars, creating, listRes, routeVars, trip>>
    \/ \E member \in PoolMember : AddMember(member) /\ UNCHANGED <<ledgerVars, creating, listRes, routeVars, trip>>
    \/ \E shipId \in PoolShips : RemoveMember(shipId) /\ UNCHANGED <<ledgerVars, creating, listRes, routeVars, trip>>
    \/ PoolRepositorySave /\ UNCHANGED <<ledgerVars, creating, listRes, routeVars, trip>>
    \/ \E id \in 1..MaxRows : PoolRepositoryFindById(id) /\ UNCHANGED <<ledgerVars, creating, listRes, routeVars, trip>>

PoolSpec == Init /\ [][PoolNext]_vars

\* The ledger under valid requests whose amounts include one below half of
\* 0.01 g (0.004 g), which the store rounds to 0.00.
SubCentAmountInputs == {4, 10}

SubCentNext ==
    \/ \E shipId \in ShipIdInputs, amount \in SubCentAmountInputs :
            /\ FreeSlot
            /\ \E b \in GetCurrentBalance(shipId) :
                    BankSurplusExecute([shipId |-> shipId, year |-> 2026,
                                        amount |-> amount], b)
            /\ UNCHANGED <<poolVars, creating, listRes, routeVars, trip>>
    \/ \E shipId \in ShipIdInputs, amount \in SubCentAmountInputs :
            /\ FreeSlot
            /\ \E b \in GetCurrentBalance(shipId) :
                    ApplyBankingExecute([shipId |-> shipId, year |-> 2026,
                                         amount |-> amount, sourceYear |-> 2025], b)
            /\ UNCHANGED <<poolVars, creating, listRes, routeVars, trip>>
    \/ \E call \in BagToSet(inflight) :
            BankingRepositorySave(call) /\ UNCHANGED <<poolVars, creating, listRes, routeVars, trip>>
    \/ Tick /\ UNCHANGED <<poolVars, creating, listRes, routeVars, trip>>

SubCentSpec == Init /\ [][SubCentNext]_vars

\* The ledger with the bank-then-borrow caller: any requests first, then the
\* round trip on its own.
RoundTripNext ==
    \/ trip.stage = "none" /\ Next
    \/ \E shipId \in Ships, amount \in AmountInputs :
            \E b \in GetCurrentBalance(shipId) :
                TripBank(shipId, amount, b) /\ UNCHANGED <<poolVars, creating, listRes, routeVars>>
    \/ TripBankSaved /\ UNCHANGED <<poolVars, creating, listRes, routeVars>>
    \/ \E b \in GetCurrentBalance(trip.shipId) : TripBorrow(b) /\ UNCHANGED <<poolVars, creating, listRes, routeVars>>
    \/ TripBorrowSaved /\ UNCHANGED <<poolVars, creating, listRes, routeVars>>
    \/ trip.stage # "none" /\ Tick /\ UNCHANGED <<poolVars, creating, listRes, routeVars, trip>>

RoundTripSpec == Init /\ [][RoundTripNext]_vars

\* One ship's requests to calculate, bank and borrow, over years inside and
\* outside the table of targets.
YearCheckInputs == {NoYear, 2024, 2026, 2031}

YearNext ==
    \/ \E year \in YearCheckInputs :
            /\ FreeSlot
            /\ \E b \in GetCurrentBalance("SHIP001") :
                    BankSurplusExecute([shipId |-> "SHIP001", year |-> year,
                                        amount |-> 10], b)
            /\ UNCHANGED <<poolVars, creating, listRes, routeVars, trip>>
    \/ \E year \in YearCheckInputs :
            /\ FreeSlot
            /\ \E b \in GetCurrentBalance("SHIP001") :
                    ApplyBankingExecute([shipId |-> "SHIP001", year |-> year,
                                         amount |-> 10, sourceYear |-> 2025], b)
            /\ UNCHANGED <<poolVars, creating, listRes, routeVars, trip>>
    \/ \E call \in BagToSet(inflight) :
            BankingRepositorySave(call) /\ UNCHANGED <<poolVars, creating, listRes, routeVars, trip>>
    \/ Tick /\ UNCHANGED <<poolVars, creating, listRes, routeVars, trip>>
    \/ \E year \in YearCheckInputs :
            /\ CalculateCBExecute([shipId |-> "SHIP001", year |-> year,
                                   routeId |-> NoRouteId])
            /\ UNCHANGED <<ledgerVars, poolVars, creating, listRes, trip>>

YearSpec == Init /\ [][YearNext]_vars

\* The ledger under valid requests of whole hundredths of a gram that do not
\* overlap in time: a request starts only when none is under way.
SerialAmountInputs == {10, 20}

SerialNext ==
    \/ \E shipId \in ShipIdInputs, amount \in SerialAmountInputs :
            /\ AllIdle
            /\ \E b \in GetCurrentBalance(shipId) :
                    BankSurplusExecute([shipId |-> shipId, year |-> 2026,
                                        amount |-> amount], b)
            /\ UNCHANGED <<poolVars, creating, listRes, routeVars, trip>>
    \/ \E shipId \in ShipIdInputs, amount \in SerialAmountInputs :
            /\ AllIdle
            /\ \E b \in GetCurrentBalance(shipId) :
                    ApplyBankingExecute([shipId |-> shipId, year |-> 2026,
                                         amount |-> amount, sourceYear |-> 2025], b)
            /\ UNCHANGED <<poolVars, creating, listRes, routeVars, trip>>
    \/ \E call \in BagToSet(inflight) :
            BankingRepositorySave(call) /\ UNCHANGED <<poolVars, creating, listRes, routeVars, trip>>
    \/ Tick /\ UNCHANGED <<poolVars, creating, listRes, routeVars, trip>>

SerialSpec == Init /\ [][SerialNext]_vars

\* The pool store under concurrent createPool requests.
CreatePoolNext ==
    \/ \E input \in CreatePoolInput :
            CreatePoolExecute(input) /\ UNCHANGED <<ledgerVars, listRes, routeVars, trip>>
    \/ \E call \in BagToSet(creating) :
            CreatePoolSave(call) /\ UNCHANGED <<ledgerVars, listRes, routeVars, trip>>

CreatePoolSpec == Init /\ [][CreatePoolNext]_vars

\* The pool store filled by createPool requests and listed with filters.
ListNext ==
    \/ \E input \in ListedPoolInputs :
            CreatePoolExecute(input) /\ UNCHANGED <<ledgerVars, listRes, routeVars, trip>>
    \/ \E call \in BagToSet(creating) :
            CreatePoolSave(call) /\ UNCHANGED <<ledgerVars, listRes, routeVars, trip>>
    \/ \E year \in ListYearInputs, shipId \in ListShipIdInputs :
            /\ GetAllPools([year |-> year, shipId |-> shipId])
            /\ UNCHANGED <<ledgerVars, routeVars, trip>>

ListSpec == Init /\ [][ListNext]_vars

\* The routes store under concurrent setBaseline requests, with the compliance
\* calculation and the route comparison reading it.
\* The Pool entity alone: createPool, addMember and removeMember on one pool kept
\* in memory, with members whose balances can cancel to exactly zero
EntityYearInputs == {2024, 2025, 2026}
EntityMember == PoolMember \cup {[shipId |-> "SHIP002", complianceBalance |-> -4]}
EntityMemberLists == UNION {[1..n -> EntityMember] : n \in 0..Cardinality(PoolShips)}

PoolEntityNext ==
    \/ \E poolName \in PoolNameInputs, year \in EntityYearInputs, members \in EntityMemberLists :
            CreatePool(poolName, year, members) /\ UNCHANGED <<ledgerVars, creating, listRes, routeVars, trip>>
    \/ \E member \in EntityMember : AddMember(member) /\ UNCHANGED <<ledgerVars, creating, listRes, routeVars, trip>>
    \/ \E shipId \in PoolShips : RemoveMember(shipId) /\ UNCHANGED <<ledgerVars, creating, listRes, routeVars, trip>>

PoolEntitySpec == Init /\ [][PoolEntityNext]_vars

\* The comparison and the calculator applied to the same route data: intensities
\* below, at and above the targets, fuel from none to two tonnes, every year of
\* the target table
CompareGhgInputs == {870000, 877528, 880000, 893368, 910000, 935000}
CompareFuelInputs == {0, 1, 2}

\* the entry CompareRoutesUseCase builds for a route and the ComplianceBalance
\* CalculateCBUseCase builds for it, side by side
CompareAndCalculate(ghgIntensity, fuelConsumption, year) ==
    /\ routeRes' = [op |-> "compareAndCalculate", error |-> "",
                    ghgIntensity |-> ghgIntensity, fuelConsumption |-> fuelConsumption,
                    year |-> year,
                    comparison |-> CompareEntry(ghgIntensity, fuelConsumption,
                                                CompareTarget(year)),
                    cb |-> CreateFromRoute("SHIP001", year, fuelConsumption, ghgIntensity)]
    /\ UNCHANGED <<routes, setting>>

AgreementNext ==
    \E ghgIntensity \in CompareGhgInputs, fuelConsumption \in CompareFuelInputs,
       year \in DOMAIN FUELEU_TARGETS :
            /\ CompareAndCalculate(ghgIntensity, fuelConsumption, year)
            /\ UNCHANGED <<ledgerVars, poolVars, creating, listRes, trip>>

AgreementSpec == Init /\ [][AgreementNext]_vars

RouteNext ==
    \/ \E routeId \in RouteIdInputs :
            SetBaselineExecute(routeId) /\ UNCHANGED <<ledgerVars, poolVars, creating, listRes, trip>>
    \/ \E call \in BagToSet(setting) :
            ClearBaseline(call) /\ UNCHANGED <<ledgerVars, poolVars, creating, listRes, trip>>
    \/ \E call \in BagToSet(setting) :
            MarkBaseline(call) /\ UNCHANGED <<ledgerVars, poolVars, creating, listRes, trip>>
    \/ \E call \in BagToSet(setting) :
            ReturnUpdated(call) /\ UNCHANGED <<ledgerVars, poolVars, creating, listRes, trip>>
    \/ \E input \in CalculateCBInput :
            CalculateCBExecute(input) /\ UNCHANGED <<ledgerVars, poolVars, creating, listRes, trip>>
    \/ \E queryYear \in CompareYearInputs :
            CompareRoutes(queryYear) /\ UNCHANGED <<ledgerVars, poolVars, creating, listRes, trip>>

RouteSpec == Init /\ [][RouteNext]_vars

\* The routes store under setBaseline calls made through SetBaselineUseCase
\* and on RouteRepository itself.
RouteRepositoryNext ==
    \/ \E routeId \in RouteIdInputs :
            SetBaselineExecute(routeId) /\ UNCHANGED <<ledgerVars, poolVars, creating, listRes, trip>>
    \/ \E routeId \in RouteIdInputs \ {NoRouteId} :
            /\ RouteRepositorySetBaseline(routeId)
            /\ UNCHANGED <<ledgerVars, poolVars, creating, listRes, trip>>
    \/ \E call \in BagToSet(setting) :
            ClearBaseline(call) /\ UNCHANGED <<ledgerVars, poolVars, creating, listRes, trip>>
    \/ \E call \in BagToSet(setting) :
            MarkBaseline(call) /\ UNCHANGED <<ledgerVars, poolVars, creating, listRes, trip>>
    \/ \E call \in BagToSet(setting) :
            ReturnUpdated(call) /\ UNCHANGED <<ledgerVars, poolVars, creating, listRes, trip>>

RouteRepositorySpec == Init /\ [][RouteRepositoryNext]_vars

(***************************************************************************)
(* Properties.                                                             *)
(***************************************************************************)
RECURSIVE SumAmounts(_, _, _)
\* the sum of the amounts of the first n rows of a ship of one kind
SumAmounts(shipId, kind, n) ==
    IF n = 0
    THEN 0
    ELSE SumAmounts(shipId, kind, n - 1)
            + (IF ledger[n].ship_id = shipId /\ ledger[n].transaction_type = kind
               THEN ledger[n].amount
               ELSE 0)

LastRow(l) == l[Len(l)]

\* the calls in flight for a ship
InFlightFor(shipId) ==
    [call \in {c \in BagToSet(inflight) : c.rec.shipId = shipId}
        |-> CopiesIn(call, inflight)]

\* C1: at any moment at most one bank or borrow operation is in flight for a
\* given ship (between its read of the balance and its write of the record).
C1_OneInFlightPerShip ==
    \A shipId \in Ships : BagCardinality(InFlightFor(shipId)) <= 1

\* C2: for every ship the sum of the amounts of its BORROW records never
\* exceeds the sum of the amounts of its BANK records.
C2_NoOverBorrow ==
    \A shipId \in Ships :
        SumAmounts(shipId, BORROW, Len(ledger)) <= SumAmounts(shipId, BANK, Len(ledger))

\* C3: a borrow of a valid input whose amount is greater than the ship's
\* current balance fails with the insufficient-balance error, appends no record
\* and leaves the current balance of every ship as it was.
C3_FailedBorrowWritesNothing ==
    [][\A input \in ApplyBankingInput :
        ApplyValidateInput(input) =>
            \A b \in GetCurrentBalance(input.shipId) :
                (input.amount > b /\ ApplyBankingExecute(input, b))
                    => /\ res' = "insufficient"
                       /\ ledger' = ledger
                       /\ inflight' = inflight
                       /\ \A shipId \in Ships :
                            GetCurrentBalance(shipId)' = GetCurrentBalance(shipId)]_vars

\* a borrow has just been refused for want of balance while the ship had some
C3_Witness ==
    /\ res = "insufficient"
    /\ \E shipId \in Ships : GetCurrentBalance(shipId) # {0}

\* C4: a pool's total compliance balance equals the sum of its members'
\* compliance balances, after every createPool, addMember and removeMember,
\* failed or not, and after a save followed by a load.
C4_TotalIsSumOfMembers ==
    pool # NoPool => pool.totalCB = SumCB(pool.members)

\* C5: removeMember on a pool of exactly 2 members fails before any mutation:
\* members, total and compliance flag are as they were before the call.
C5_RemoveFromPairLeavesPool ==
    [][\A shipId \in PoolShips :
        (pool # NoPool /\ Len(pool.members) = MinMembers
                /\ MemberExists(pool.members, shipId) /\ RemoveMember(shipId))
            => (poolRes' # "ok" /\ pool' = pool)]_vars

\* C6: every pool has at least 2 members at all times, whatever succeeded or
\* failed on it.
C6_AtLeastTwoMembers ==
    pool # NoPool => Len(pool.members) >= MinMembers

\* C7: no pool, in memory or stored, holds two members with the same ship id,
\* and addMember of a ship already in the pool fails and leaves the member list
\* and the total as they were.
C7_NoDuplicateMembers ==
    [][/\ Len(pool'.members) = Cardinality(ShipIdsOf(pool'.members))
       /\ \A id \in 1..Len(poolRows') :
            Len(poolRows'[id].members) = Cardinality(ShipIdsOf(poolRows'[id].members))
       /\ \A member \in PoolMember :
            (pool # NoPool /\ MemberExists(pool.members, member.shipId)
                    /\ AddMember(member))
                => /\ poolRes' = "Ship is already in the pool"
                   /\ pool'.members = pool.members
                   /\ pool'.totalCB = pool.totalCB]_vars

\* addMember has just refused a ship that is in the pool
C7_Witness ==
    /\ poolRes = "Ship is already in the pool"
    /\ Len(pool.members) >= MinMembers

C10_RoundTripRestoresBalance ==
    (trip.stage = "done" /\ res = "ok")
        => GetCurrentBalance(trip.shipId) = {trip.before}

\* C11: the current balance of a ship is the resulting balance of its most
\* recently dated record, 0 when it has none; right after a successful bank or
\* borrow it is the resulting balance of the record just written, also when two
\* records of the ship carry the same timestamp.
C11_BalanceIsLastWritten ==
    [][\A call \in BagToSet(inflight) :
        BankingRepositorySave(call)
            => GetCurrentBalance(call.rec.shipId)' = {LastRow(ledger').remaining_balance}]_vars

\* C12: every ledger record has a strictly positive amount and a resulting
\* balance that is not negative, concurrent requests included.
C12_PositiveAmounts ==
    \A i \in 1..Len(ledger) :
        ledger[i].amount > 0 /\ ledger[i].remaining_balance >= 0

\* C13: the ledger is append-only: a successful bank or borrow adds exactly one
\* record, a failed one adds none, and no operation changes or removes a record
\* already written.
C13_AppendOnly ==
    [][/\ Len(ledger') >= Len(ledger)
       /\ SubSeq(ledger', 1, Len(ledger)) = ledger
       /\ Len(ledger') = Len(ledger)
            + (IF \E call \in BagToSet(inflight) : BankingRepositorySave(call)
               THEN 1 ELSE 0)
       /\ res' \in {"invalid", "insufficient"} => ledger' = ledger]_vars

\* a request has failed on a ledger that holds records of its ship and of another
C13_Witness ==
    /\ res \in {"invalid", "insufficient"}
    /\ \A shipId \in Ships : RowsOf(shipId) # {}

\* C15: exactly one route is flagged baseline in every reachable state,
\* between the steps of one setBaseline and under concurrent setBaseline calls
\* included.
C15_ExactlyOneBaseline == Cardinality({routeId \in RouteIds : routes[routeId]}) = 1

\* C14: the pool store never holds two pools with the same name, also when two
\* createPool requests with the same name run concurrently.
C14_UniquePoolNames ==
    \A i, j \in 1..Len(poolRows) :
        i # j => poolRows[i].pool_name # poolRows[j].pool_name

\* a createPool request that must be rejected, as the store is now
Unacceptable(input) ==
    \/ Len(input.ships) < 2
    \/ \E i, j \in 1..Len(input.ships) :
            i # j /\ input.ships[i].shipId = input.ships[j].shipId
    \/ input.year \notin 2025..2030
    \/ \E i \in 1..Len(poolRows) : poolRows[i].pool_name = input.poolName

\* a createPool request with a ship whose route cannot be resolved
Unresolvable(call) ==
    \E i \in 1..Len(call.ships) :
        IF call.ships[i].routeId = NoRouteId
        THEN \A routeId \in RouteIds : ~routes[routeId]
        ELSE call.ships[i].routeId \notin RouteIds

\* C16: createPool rejects a member list with fewer than 2 ships, a member
\* list with a duplicate ship identifier, a year outside 2025..2030, a name
\* that already exists and an unresolvable route, and in each of these cases
\* no pool is saved to the pool store.
C16_CreatePoolRejects ==
    [][\/ /\ poolRes' \notin {"ok", "none"}
          /\ poolRows' = poolRows
          /\ creating' \sqsubseteq creating
       \/ /\ \A input \in CreatePoolInput :
                Unacceptable(input) => ~CreatePoolExecute(input)
          /\ \A call \in BagToSet(creating) :
                Unresolvable(call) => ~CreatePoolSave(call)]_vars

C16_Witness ==
    /\ poolRes = "Pool with name already exists"
    /\ Len(poolRows) = 1
    /\ BagCardinality(creating) = 0

\* C17: a year outside 2025..2030 is a validation error for calculate, bank
\* and borrow: each of them called with such a year fails, and bank and borrow
\* then write no ledger record (none is written, none is left to be written).
C17_YearOutsideTableFails ==
    [][/\ \A year \in YearCheckInputs \ (2025..2030) :
            \A b \in GetCurrentBalance("SHIP001") :
                \/ BankSurplusExecute([shipId |-> "SHIP001", year |-> year,
                                       amount |-> 10], b)
                \/ ApplyBankingExecute([shipId |-> "SHIP001", year |-> year,
                                        amount |-> 10, sourceYear |-> 2025], b)
                => /\ res' = "invalid"
                   /\ ledger' = ledger
                   /\ inflight' = inflight
       /\ \A year \in YearCheckInputs \ (2025..2030) :
            CalculateCBExecute([shipId |-> "SHIP001", year |-> year,
                                routeId |-> NoRouteId])
                => /\ routeRes'.op = "calculateCB"
                   /\ routeRes'.error # ""]_vars

\* a bank with a year outside the table has failed on a ledger that holds a
\* record, after a calculation with such a year has failed
C17_Witness ==
    /\ res = "invalid"
    /\ Len(ledger) > 0
    /\ routeRes = RouteError("calculateCB", "Year must be between 2025 and 2030")

\* C18: the route comparison called with a year outside 2025..2030 rejects
\* with an error and never evaluates routes against the 2025 target.
C18_CompareRejectsUnknownYear ==
    [][\A queryYear \in CompareYearInputs \ ({NoYear} \cup (2025..2030)) :
            CompareRoutes(queryYear) /\ routeRes' # routeRes
                => /\ routeRes'.op = "compareRoutes"
                   /\ routeRes'.error # ""]_vars

\* C19: a borrow with a missing source year, or with a source year that is not
\* strictly less than the year of use, is rejected whatever the ledger holds
\* and writes nothing; every BORROW record in the ledger has sourceYear < year
\* and every BANK record has no source year.
C19_SourceYearBeforeYear ==
    [][/\ \/ /\ res' = "invalid"
             /\ ledger' = ledger
             /\ inflight' = inflight
          \/ \A input \in ApplyBankingInput :
                (input.sourceYear = NoYear \/ input.sourceYear >= input.year)
                    => \A b \in GetCurrentBalance(input.shipId) :
                            ~ApplyBankingExecute(input, b)
       /\ \A i \in 1..Len(ledger') :
            IF ledger'[i].transaction_type = BORROW
            THEN /\ ledger'[i].source_year # NoYear
                 /\ ledger'[i].source_year < ledger'[i].year
            ELSE ledger'[i].source_year = NoYear]_vars

\* a borrow has been recorded and a later request has been rejected
C19_Witness ==
    /\ res = "invalid"
    /\ \E i \in 1..Len(ledger) : ledger[i].transaction_type = BORROW
    /\ BagCardinality(inflight) = 0

C21_PenaltySplitEvenly ==
    pool # NoPool
        => /\ PoolCalculatePenalty(pool)
                = (IF pool.totalCB < 0 THEN -pool.totalCB * 6 ELSE 0)
           /\ GetPenaltyPerMember(pool).kind = "finite"
           /\ GetPenaltyPerMember(pool).num * Len(pool.members)
                = PoolCalculatePenalty(pool) * GetPenaltyPerMember(pool).den

\* the elements of a list
ElementsOf(list) == {list[i] : i \in 1..Len(list)}

\* C22: a member is in surplusMembers exactly when its own balance is > 0, in
\* deficitMembers exactly when its own balance is < 0, whatever the pool's
\* total, and no member is in both.
C22_MembersPartitionedBySign ==
    pool # NoPool
        => /\ \A i \in 1..Len(pool.members) :
                /\ pool.members[i] \in ElementsOf(GetSurplusMembers(pool))
                        <=> pool.members[i].complianceBalance > 0
                /\ pool.members[i] \in ElementsOf(GetDeficitMembers(pool))
                        <=> pool.members[i].complianceBalance < 0
           /\ ElementsOf(GetSurplusMembers(pool)) \subseteq ElementsOf(pool.members)
           /\ ElementsOf(GetDeficitMembers(pool)) \subseteq ElementsOf(pool.members)
           /\ ElementsOf(GetSurplusMembers(pool)) \cap ElementsOf(GetDeficitMembers(pool)) = {}

\* a pool whose total is a deficit has a member in surplus and one in deficit
C22_Witness ==
    /\ pool # NoPool
    /\ pool.totalCB < 0
    /\ Len(pool.members) >= MinMembers
    /\ GetSurplusMembers(pool) # <<>>
    /\ GetDeficitMembers(pool) # <<>>

\* C23: listing pools returns only pools that match every filter supplied:
\* every pool returned has the year asked for, when one is, and has the ship
\* asked for among its members, when one is.
C23_ListMatchesEveryFilter ==
    \A k \in 1..Len(listRes.pools) :
        /\ listRes.year # NoYear => poolRows[listRes.pools[k].id].year = listRes.year
        /\ listRes.shipId # NoShipId
                => listRes.shipId \in ShipIdsOf(poolRows[listRes.pools[k].id].members)

\* the ship has a surplus to bank for the year: the balance the calculator
\* gives it on the baseline route is positive
HasSurplus(shipId, year) ==
    /\ year \in DOMAIN FUELEU_TARGETS
    /\ \E routeId \in FindBaseline :
            GetSurplusAmount(CreateFromRoute(shipId, year, RouteFuel[routeId],
                                             RouteGHG[routeId])) > 0

\* C24: a bank request is accepted only when the ship has a surplus (a positive
\* compliance balance) to bank; for a ship without one it is rejected and
\* writes no record.
C24_BankOnlySurplus ==
    [][\A year \in YearCheckInputs :
            ~HasSurplus("SHIP001", year)
                => \A b \in GetCurrentBalance("SHIP001") :
                        BankSurplusExecute([shipId |-> "SHIP001", year |-> year,
                                            amount |-> 10], b)
                            => /\ res' \notin {"ok", "none"}
                               /\ ledger' = ledger
                               /\ inflight' = inflight]_vars

\* C25: after any sequence of bank and borrow operations on a ship that do not
\* overlap in time, the ship's current balance is the sum of the amounts of its
\* BANK records minus the sum of the amounts of its BORROW records.
C25_BalanceIsBankedMinusBorrowed ==
    AllIdle
        => \A shipId \in Ships :
                GetCurrentBalance(shipId)
                    = {SumAmounts(shipId, BANK, Len(ledger))
                        - SumAmounts(shipId, BORROW, Len(ledger))}

\* C26: setBaseline for a route identifier that matches no route fails with a
\* not-found error and leaves the baseline flag of every route unchanged, both
\* through SetBaselineUseCase and on RouteRepository.setBaseline itself.
C26_UnknownRouteChangesNothing ==
    [][/\ \A routeId \in RouteIdInputs \ (RouteIds \cup {NoRouteId}) :
            SetBaselineExecute(routeId)
                => /\ routeRes' = RouteError("setBaseline", "Route not found")
                   /\ routes' = routes
                   /\ setting' = setting
       /\ \A call \in BagToSet(setting) :
            call.routeId \notin RouteIds
                => /\ ClearBaseline(call) \/ MarkBaseline(call) => routes' = routes
                   /\ ReturnUpdated(call)
                        => /\ routeRes' = RouteError("setBaseline", "Route not found")
                           /\ routes' = routes]_vars

\* C27: after any sequence of createPool, addMember and removeMember calls,
\* successful or failed, a pool's compliance flag is true exactly when the total
\* balance it stores is >= 0.
C27_FlagMatchesTotal == pool # NoPool => (pool.isCompliant <=> pool.totalCB >= 0)

\* a failed removeMember has left a compliant pool of one member whose stored
\* total is exactly zero
C27_Witness ==
    /\ pool # NoPool
    /\ poolRes = "Pool must have at least 2 members"
    /\ Len(pool.members) < MinMembers
    /\ pool.totalCB = 0
    /\ pool.isCompliant

\* C28: for every pool built by createPool and changed only by successful
\* addMember/removeMember calls, getTotalSurplus() minus getTotalDeficit() equals
\* getTotalCB(): it holds of the pool every successful call leaves.
C28_SurplusMinusDeficitIsTotal ==
    pool # NoPool /\ poolRes = "ok"
        => GetTotalSurplus(pool) - GetTotalDeficit(pool) = GetTotalCB(pool)

\* a call has succeeded on a pool with one surplus member and two deficit members
C28_Witness ==
    /\ pool # NoPool
    /\ poolRes = "ok"
    /\ Len(GetSurplusMembers(pool)) = 1
    /\ Len(GetDeficitMembers(pool)) = 2
    /\ GetTotalSurplus(pool) = 4
    /\ GetTotalDeficit(pool) = 16
    /\ GetTotalCB(pool) = -12

\* the records the store holds for one ship, oldest insert first
RecordsOf(shipId) == SelectSeq(ledger, LAMBDA row : row.ship_id = shipId)

\* C29: ship isolation: a bank or borrow on one ship, successful or failed,
\* leaves the records and the current balance of every other ship unchanged:
\* a ship's records or current balance change only in the save of a call made
\* for that ship.
C29_ShipIsolation ==
    [][\A shipId \in Ships :
            \/ /\ RecordsOf(shipId)' = RecordsOf(shipId)
               /\ GetCurrentBalance(shipId)' = GetCurrentBalance(shipId)
            \/ \E call \in BagToSet(inflight) :
                    call.rec.shipId = shipId /\ BankingRepositorySave(call)]_vars

\* SHIP001 holds a record and a balance of its own, and the latest insert is a
\* record of SHIP002 with a different balance
C29_Witness ==
    /\ Len(ledger) >= 2
    /\ ledger[1].ship_id = "SHIP001"
    /\ ledger[Len(ledger)].ship_id = "SHIP002"
    /\ GetCurrentBalance("SHIP001") = {10}
    /\ GetCurrentBalance("SHIP002") = {20}

\* C30: for every route with non-negative fuel consumption and every year in
\* 2025..2030, CompareRoutes marks the route compliant exactly when the
\* calculator's balance (target - ghgActual) x fuel x 41000 for that route and
\* year is >= 0.
C30_ComparisonAgreesWithCalculator ==
    routeRes.op = "compareAndCalculate"
        => /\ routeRes.cb.energyInScope = routeRes.fuelConsumption * EnergyPerTonne
           /\ routeRes.cb.ghgTarget = CompareTarget(routeRes.year)
           /\ routeRes.comparison.compliant <=> routeRes.cb.complianceBalance >= 0

====
